---- MODULE Spec2Model ----
(***************************************************************************)
(* Histogram<T>, its bins and bin generators, and GenericBlockTimer        *)
(* (histogram.h) as a state machine.  T is an unsigned integer type of     *)
(* TBits bits, size_t an unsigned type of SizeBits bits and int a two's    *)
(* complement type of IntBits bits (IntBits < SizeBits, as 32 < 64 in the  *)
(* source).  Spec is the Histogram called from one thread, SpecAdders and  *)
(* SpecConc are its callers on several threads, SpecGen is a generator     *)
(* object called directly and SpecTimer the scoped timers.                 *)
(***************************************************************************)
EXTENDS Integers, Sequences, FiniteSets, TLC

\* ------------------------------------------------------------------ bounds
TBits == 4
SizeBits == 4
IntBits == 3
MaxN == 2
MaxSeq == 3
MaxOps == 2
NumThreads == 2
AddsPerThread == 2
MaxCalls == 3
ConcAdds == 1
MaxTimers == 2
MaxTicks == 2
MaxHists == 2
MaxThreadObjs == 2
MaxFrames == 3
MaxText == 1

\* ------------------------------------------------------------ number types
\* std::numeric_limits<T>::min() and ::max() of the unsigned type T.
TMin == 0
TMax == 2^TBits - 1
T == TMin..TMax
SizeMod == 2^SizeBits
SIZE_MAX == SizeMod - 1
IntMod == 2^IntBits
INT_MAX == 2^(IntBits - 1) - 1

\* size_t arithmetic wraps.
ToSize(x) == x % SizeMod
\* Conversion of a size_t to int keeps the low IntBits bits (two's complement).
ToInt(x) == ((x + 2^(IntBits - 1)) % IntMod) - 2^(IntBits - 1)
\* Unsigned T arithmetic wraps.
WrapT(x) == x % 2^TBits
\* static_cast<T>(double) of a double whose fraction has been dropped: the
\* value when it is representable; otherwise the conversion is undefined and
\* yields ub, the value the build's conversion produces.
CastT(x, ub) == IF 0 <= x /\ x <= TMax THEN x ELSE ub
\* The integral part of the real n/d (d > 0): a conversion to an integer type
\* drops the fraction, towards zero.
Trunc(n, d) == IF n >= 0 THEN n \div d ELSE -((-n) \div d)

\* --------------------------------------------------------------- the bins
\* HistogramBin(s, e): the boundaries; the counter is kept beside it.
HistogramBin(s, e) == [start |-> s, end |-> e]

\* HistogramBin::accepts
accepts(b, value) == value >= b.start /\ (value < b.end \/ value = TMax)

\* incr() that counts one sample whatever the amount.
incr_one(c, amount) == ToSize(c + 1)
\* incr() written as a store of the amount instead of a fetch_add.
incr_store(c, amount) == ToSize(amount)
\* HistogramBin::incr: _count.fetch_add(amount), one atomic step.
incr(c, amount) == ToSize(c + amount)

\* set() that leaves the counter as it is.
set_keep(c, val) == c
\* HistogramBin::set: _count.store(val)
set(c, val) == ToSize(val)

\* --------------------------------------------------------- the generators
\* A build of the program: ub is the value an out-of-range static_cast<T>
\* produces, checked says whether the library's iterators check their
\* arithmetic (debug iterators) or are plain pointers.
Builds == [ub : T, checked : BOOLEAN]

\* _width and _growth are doubles: kept as the rationals <<num, den>>.
GrowingWidthGenerator(s, w, g) ==
    [kind |-> "growing", start |-> s, width |-> <<w, 1>>, growth |-> g]
FixedInputGenerator(input) ==
    [kind |-> "fixed", input |-> input, it |-> 0]
\* The base is the rational num/den.
ExponentialGenerator(s, num, den) ==
    [kind |-> "exponential", start |-> s, num |-> num, den |-> den]
\* A caller-supplied generator G: it yields the bins of out, in order.
CustomGenerator(out) ==
    [kind |-> "custom", out |-> out, it |-> 0]

\* The power taken one exponent too far.
TruncPow_succ(num, den, e) == (num^(e + 1)) \div (den^(e + 1))
\* static_cast<T>(std::pow(_power, e)) before the cast: the power truncated.
TruncPow(num, den, e) == (num^e) \div (den^e)

\* FixedInputGenerator::operator(): it + 1 >= end, with it counted from
\* input.begin().
FixedInputExhausted(g) == g.it + 1 >= Len(g.input)
\* Over an empty input it + 1 lies beyond end(): the iterator arithmetic is
\* undefined there.
FixedInputBeyondEnd(g) == g.it + 1 > Len(g.input)

\* _width * _growth written as a sum.
NextWidth_sum(g) ==
    <<g.width[1] * g.growth[2] + g.growth[1] * g.width[2],
      g.width[2] * g.growth[2]>>
\* GrowingWidthGenerator::operator(): _width = _width * _growth
NextWidth(g) == <<g.width[1] * g.growth[1], g.width[2] * g.growth[2]>>

\* One call of the generator: [ok, err, bin, gen].  ok = FALSE with err =
\* "overflow_error" when it throws; err = "abort" when checked iterators stop
\* the process at the undefined it + 1 (plain pointers compare as exhausted).
Call(g, bld) ==
    CASE g.kind = "growing" ->
           LET w == CastT(Trunc(g.width[1], g.width[2]), bld.ub)
           IN [ok |-> TRUE, err |-> "",
               bin |-> HistogramBin(g.start, WrapT(g.start + w)),
               gen |-> [g EXCEPT !.start = WrapT(g.start + w),
                                 !.width = NextWidth(g)]]
      [] g.kind = "fixed" ->
           IF FixedInputBeyondEnd(g) /\ bld.checked
           THEN [ok |-> FALSE, err |-> "abort",
                 bin |-> HistogramBin(0, 0), gen |-> g]
           ELSE IF FixedInputExhausted(g)
           THEN [ok |-> FALSE, err |-> "overflow_error",
                 bin |-> HistogramBin(0, 0), gen |-> g]
           ELSE [ok |-> TRUE, err |-> "",
                 bin |-> HistogramBin(g.input[g.it + 1], g.input[g.it + 2]),
                 gen |-> [g EXCEPT !.it = g.it + 1]]
      [] g.kind = "exponential" ->
           [ok |-> TRUE, err |-> "",
            bin |-> HistogramBin(
                        CastT(TruncPow(g.num, g.den, g.start), bld.ub),
                        CastT(TruncPow(g.num, g.den, g.start + 1), bld.ub)),
            gen |-> [g EXCEPT !.start = g.start + 1]]
      [] g.kind = "custom" ->
           [ok |-> TRUE, err |-> "", bin |-> g.out[g.it + 1],
            gen |-> [g EXCEPT !.it = g.it + 1]]

\* std::generate(bins.begin(), bins.end(), generator): k calls, in order; an
\* exception thrown by a call leaves the algorithm at once.  calls counts the
\* calls made on the generator.
RECURSIVE generate(_, _, _)
generate(g, k, bld) ==
    IF k = 0
    THEN [ok |-> TRUE, err |-> "", bins |-> <<>>, calls |-> 0, gen |-> g]
    ELSE LET r == Call(g, bld)
         IN IF ~r.ok
            THEN [ok |-> FALSE, err |-> r.err, bins |-> <<>>, calls |-> 1,
                  gen |-> r.gen]
            ELSE LET rest == generate(r.gen, k - 1, bld)
                 IN [ok |-> rest.ok, err |-> rest.err,
                     bins |-> IF rest.ok THEN <<r.bin>> \o rest.bins ELSE <<>>,
                     calls |-> 1 + rest.calls, gen |-> rest.gen]

\* std::generate receiving the caller's generator by reference.
passed_by_reference(g, after) == after
\* std::generate(first, last, Generator gen) takes its generator by value:
\* the caller's object g is what it was, whatever state the copy ended in.
passed_by_value(g, after) == g

\* ------------------------------------------------------------ Histogram
\* Histogram::verify
RECURSIVE verifyFrom(_, _, _)
verifyFrom(bs, i, prev) ==
    IF i > Len(bs) THEN prev = TMax
    ELSE IF bs[i].start # prev THEN FALSE
         ELSE verifyFrom(bs, i + 1, bs[i].end)

\* verify() that also wants every bin to start below its end.
verify_sorted(bs) ==
    /\ verifyFrom(bs, 1, TMin)
    /\ \A i \in 1..Len(bs) : bs[i].start < bs[i].end
verify(bs) == verifyFrom(bs, 1, TMin)

\* The front padding with >= for >.
PadFront_geq(bs) ==
    IF bs[1].start >= TMin
    THEN <<HistogramBin(TMin, bs[1].start)>> \o bs
    ELSE bs
\* The padding of Histogram::fill, after std::generate.
PadFront(bs) ==
    IF bs[1].start > TMin
    THEN <<HistogramBin(TMin, bs[1].start)>> \o bs
    ELSE bs
PadBack(bs) ==
    IF bs[Len(bs)].end < TMax
    THEN Append(bs, HistogramBin(bs[Len(bs)].end, TMax))
    ELSE bs

\* Histogram::fill: the bins, what verify() returned (fill drops it), the bins
\* as std::generate left them, the calls made on the generator and the
\* caller's generator object as fill() leaves it.
fill(g, n, bld) ==
    LET r == generate(g, n, bld)
    IN IF ~r.ok
       THEN [ok |-> FALSE, err |-> r.err, bins |-> <<>>, verified |-> FALSE,
             generated |-> <<>>, calls |-> r.calls,
             caller |-> passed_by_value(g, r.gen)]
       ELSE LET bs == PadBack(PadFront(r.bins))
            IN [ok |-> TRUE, err |-> "", bins |-> bs, verified |-> verify(bs),
                generated |-> r.bins, calls |-> r.calls,
                caller |-> passed_by_value(g, r.gen)]

\* std::upper_bound(bins.begin(), bins.end(), amount, BinCompare): the
\* halving search; the position (1-based) it stops at, Len + 1 for end().
RECURSIVE upper_bound(_, _, _, _)
upper_bound(bs, amount, first, len) ==
    IF len = 0 THEN first
    ELSE LET half == len \div 2
             mid == first + half
         IN IF amount < bs[mid].end
            THEN upper_bound(bs, amount, first, half)
            ELSE upper_bound(bs, amount, mid + 1, len - half - 1)

\* Histogram::findBin: the index of the bin, 0 for nullptr.
findBin(bs, amount) ==
    IF amount = TMax THEN Len(bs)
    ELSE LET it == upper_bound(bs, amount, 1, Len(bs))
         IN IF it = Len(bs) + 1 THEN 0
            ELSE IF ~accepts(bs[it], amount) THEN 0
                 ELSE it

\* Histogram::total: std::accumulate(begin(), end(), 0, a) with the
\* accumulator an int (the type of the literal 0); HistogramBinSampleAdder
\* adds in size_t, the result is stored back into the int, and the final int
\* is converted to the size_t returned.
\* One step of it: acc = a(acc, bin).
accStep(acc, c) == ToInt(ToSize(ToSize(acc) + c))
RECURSIVE accumulate(_, _, _)
accumulate(cs, i, acc) ==
    IF i > Len(cs) THEN acc
    ELSE accumulate(cs, i + 1, accStep(acc, cs[i]))

total(cs) == ToSize(accumulate(cs, 1, 0))

\* reset() written as bins.clear().
reset_clear(cs) == <<>>
\* reset() stopping one bin short of bins.end().
reset_skip_last(cs) ==
    [i \in 1..Len(cs) |-> IF i = Len(cs) THEN cs[i] ELSE set(cs[i], 0)]
\* Histogram::reset: set(0) on every bin.
reset(cs) == [i \in 1..Len(cs) |-> set(cs[i], 0)]

\* ------------------------------------------------------------- the state
VARIABLES
    phase,      \* "new" | "ready" | "failed" (the constructor threw) | "crashed"
    generator,  \* the generator handed to the constructor
    nbins,      \* n, the constructor's bin count
    bins,       \* Histogram::bins: the boundaries, in order
    count,      \* HistogramBin::_count of each bin
    error,      \* the exception that left the constructor
    verified,   \* what verify() returned inside fill()
    lastOp,     \* the last call made on the histogram and what it returned
    prevCount,  \* the counters as they were before that call
    ops,        \* calls made so far
    value,      \* the value the adder threads add
    pc,         \* each adder thread's position inside add()
    found,      \* each adder thread's findBin() result
    left,       \* add() calls each adder thread still has to make
    generated,  \* the bins as std::generate left them, before the padding
    gencalls,   \* calls the constructor made on its generator
    gobj,       \* a generator object called directly
    gbuild,     \* the build that generator runs in
    glog,       \* what each call on gobj produced, in order
    built,      \* the bins of the Histograms constructed from gobj, in order
    state,      \* Couchbase::Thread::state of each Thread object
    startpc,    \* where the caller of start() is, per Thread object
    entrypc,    \* where the created thread is in thread_entry(), per object
    mutex,      \* who holds synchronization.mutex, per object
    runSets,    \* whether the subclass's run() calls setRunning(), per object
    terminated, \* an exception left a thread's main function: std::terminate
    context,    \* struct context of print_backtrace_to_buffer
    btpc,       \* where print_backtrace() is
    active,     \* active_frames
    frameIx,    \* ii, the frame print_backtrace() is at
    flavor,     \* which snprintf the build links
    outside,    \* a byte was written outside buffer[0..size-1]
    amount,     \* the count argument each adder thread passes to add()
    rpc,        \* the reset() caller: "off" (none) | "run" | "done"
    rpos,       \* the bin std::for_each of reset() visits next
    tpc,        \* the total() caller: "off" (none) | "idle" | "run" | "done"
    tpos,       \* the bin std::accumulate of total() reads next
    tacc,       \* the accumulator of that std::accumulate
    tret,       \* what total() returned
    tstart,     \* the sum of the counters when total() was entered
    tend,       \* the sum of the counters when total() returned
    late,       \* per bin, the size_t sum of the amounts added since the bin
                \* was last zeroed
    wrapped,    \* whether some fetch_add has overflowed its counter
    now,        \* gethrtime(): nanoseconds on the monotonic clock
    ticks,      \* times the clock has been seen to advance
    threshold,  \* THRESHOLD_MS of the GenericBlockTimer instantiation
    timers,     \* the GenericBlockTimer objects alive, innermost scope last
    made,       \* timers constructed so far
    cerr,       \* the warnings written to std::cerr, in order
    outlog,     \* lines written to the timers' std::ostream* out, counted
    tadds,      \* add() calls the timers have made
    lastExit    \* the last timer destroyed and what its destructor did

vars == <<phase, generator, nbins, bins, count, error, verified, lastOp,
          prevCount, ops, value, pc, found, left, generated, gencalls,
          gobj, gbuild, glog, built, amount, rpc, rpos, tpc, tpos, tacc, tret,
          tstart, tend, late, wrapped, now, ticks, threshold, timers, made,
          cerr, outlog, tadds, lastExit,
          state, startpc, entrypc, mutex, runSets, terminated,
          context, btpc, active, frameIx, flavor, outside>>

Threads == 1..NumThreads
threadVars == <<value, pc, found, left>>
ctorVars == <<generator, nbins, bins, error, verified, generated, gencalls>>
genVars == <<gobj, gbuild, glog, built>>
seqVars == <<lastOp, prevCount, ops>>
resetVars == <<rpc, rpos>>
totalVars == <<tpc, tpos, tacc, tret, tstart, tend>>
ghostVars == <<late, wrapped>>
concVars == <<amount, resetVars, totalVars, ghostVars>>
clockVars == <<now, ticks>>
logVars == <<cerr, outlog>>
timerVars == <<clockVars, threshold, timers, made, logVars, tadds, lastExit>>
thrVars == <<state, startpc, entrypc, mutex, runSets, terminated>>
btVars == <<context, btpc, active, frameIx, flavor, outside>>
platformVars == <<thrVars, btVars>>

NoGen == [kind |-> "none"]
NoBuild == [ub |-> 0, checked |-> FALSE]
NoOp == [op |-> "none", v |-> 0, c |-> 0, ret |-> 0]

\* ---------------------------------------------------- constructor inputs
GrowStarts == {0, 1, TMax - 1}
GrowWidths == {0, 1, 3}
GrowGrowths == {<<1, 1>>, <<2, 1>>, <<3, 2>>, <<-1, 1>>}
FixedValues == {0, 2, 5, TMax}
ExpStarts == {0, 1, 2}
ExpBases == {<<1, 1>>, <<2, 1>>, <<3, 2>>}
AddValues == {TMin, 1, 3, TMax}
AddCounts == {1, INT_MAX, SIZE_MAX}

GrowingGens ==
    {GrowingWidthGenerator(s, w, g) : s \in GrowStarts, w \in GrowWidths,
                                      g \in GrowGrowths}
FixedGens ==
    {FixedInputGenerator(input) :
        input \in UNION {[1..k -> FixedValues] : k \in 0..MaxSeq}}
ExpGens ==
    {ExponentialGenerator(s, b[1], b[2]) : s \in ExpStarts, b \in ExpBases}
CustomBins == {HistogramBin(0, 3), HistogramBin(3, TMax), HistogramBin(5, TMax)}
CustomGens(n) == {CustomGenerator(out) : out \in [1..n -> CustomBins]}
ProvidedGens == GrowingGens \cup FixedGens \cup ExpGens

\* Histogram(size_t n): ExponentialGenerator<T> generator(0, 2.0)
DefaultGenerator == ExponentialGenerator(0, 2, 1)

Zeros(bs) == [i \in 1..Len(bs) |-> 0]

\* The sum of the counters, as a number.
RECURSIVE SumFrom(_, _)
SumFrom(cs, i) == IF i > Len(cs) THEN 0 ELSE cs[i] + SumFrom(cs, i + 1)
Sum(cs) == SumFrom(cs, 1)

NoName == "nullptr"
NoExit == [spent |-> 0, name |-> NoName, dest |-> FALSE, v |-> 0]

\* No GenericBlockTimer in the program.
\* No Couchbase::Thread object and no backtrace in these runs.
NoThread ==
    /\ state = <<>>
    /\ startpc = <<>>
    /\ entrypc = <<>>
    /\ mutex = <<>>
    /\ runSets = <<>>
    /\ terminated = FALSE

NoContext == [indent |-> 0, size |-> 0, offset |-> 0, error |-> FALSE]

NoBacktrace ==
    /\ context = NoContext
    /\ btpc = "idle"
    /\ active = 0
    /\ frameIx = 0
    /\ flavor = "none"
    /\ outside = FALSE

NoPlatform == NoThread /\ NoBacktrace

NoTimer ==
    /\ now = 0
    /\ ticks = 0
    /\ threshold = 0
    /\ timers = <<>>
    /\ made = 0
    /\ cerr = <<>>
    /\ outlog = 0
    /\ tadds = 0
    /\ lastExit = NoExit

\* No reset() or total() caller beside the other threads.
NoConc ==
    /\ amount = [t \in Threads |-> 0]
    /\ rpc = "off"
    /\ rpos = 0
    /\ tpc = "off"
    /\ tpos = 0
    /\ tacc = 0
    /\ tret = 0
    /\ tstart = 0
    /\ tend = 0
    /\ late = <<>>
    /\ wrapped = FALSE

\* ------------------------------------------------------------- the spec
Init ==
    /\ phase = "new"
    /\ generator = NoGen
    /\ nbins = 0
    /\ bins = <<>>
    /\ count = <<>>
    /\ error = ""
    /\ verified = FALSE
    /\ lastOp = NoOp
    /\ prevCount = <<>>
    /\ ops = 0
    /\ value = 0
    /\ pc = [t \in Threads |-> "idle"]
    /\ found = [t \in Threads |-> 0]
    /\ left = [t \in Threads |-> 0]
    /\ generated = <<>>
    /\ gencalls = 0
    /\ gobj = NoGen
    /\ gbuild = NoBuild
    /\ glog = <<>>
    /\ built = <<>>
    /\ NoConc
    /\ NoTimer
    /\ NoPlatform

\* Histogram(const G& generator, size_t n): bins(n), then fill(generator).
\* An exception from fill() leaves the constructor: no object exists.
Build(g, n, bld) ==
    LET r == fill(g, n, bld)
    IN /\ generator' = r.caller
       /\ nbins' = n
       /\ gencalls' = r.calls
       /\ generated' = r.generated
       /\ bins' = r.bins
       /\ count' = Zeros(r.bins)
       /\ verified' = r.verified
       /\ error' = r.err
       /\ phase' = IF r.ok THEN "ready"
                   ELSE IF r.err = "abort" THEN "crashed" ELSE "failed"

Construct ==
    /\ phase = "new"
    /\ \E n \in 1..MaxN, bld \in Builds :
         \E g \in ProvidedGens \cup CustomGens(n) : Build(g, n, bld)
    /\ UNCHANGED <<lastOp, prevCount, ops, threadVars, genVars, concVars,
                   timerVars, platformVars>>

ConstructDefault ==
    /\ phase = "new"
    /\ \E n \in 1..MaxN, bld \in Builds : Build(DefaultGenerator, n, bld)
    /\ UNCHANGED <<lastOp, prevCount, ops, threadVars, genVars, concVars,
                   timerVars, platformVars>>

\* Histogram::add: findBin(amount)->incr(count); a null findBin() result is
\* dereferenced and the process dies.
add(v, c) ==
    /\ phase = "ready"
    /\ ops < MaxOps
    /\ LET b == findBin(bins, v)
       IN /\ lastOp' = [op |-> "add", v |-> v, c |-> c, ret |-> b]
          /\ IF b = 0
             THEN phase' = "crashed" /\ count' = count
             ELSE phase' = phase /\ count' = [count EXCEPT ![b] = incr(@, c)]
    /\ prevCount' = count
    /\ ops' = ops + 1
    /\ UNCHANGED <<ctorVars, threadVars, genVars, concVars, timerVars,
                   platformVars>>

Add == \E v \in AddValues, c \in AddCounts : add(v, c)

\* Histogram::getBin
getBin(v) ==
    /\ phase = "ready"
    /\ ops < MaxOps
    /\ lastOp' = [op |-> "getBin", v |-> v, c |-> 0, ret |-> findBin(bins, v)]
    /\ prevCount' = count
    /\ ops' = ops + 1
    /\ UNCHANGED <<phase, count, ctorVars, threadVars, genVars, concVars,
                   timerVars, platformVars>>

GetBin == \E v \in AddValues : getBin(v)

Reset ==
    /\ phase = "ready"
    /\ ops < MaxOps
    /\ count' = reset(count)
    /\ lastOp' = [op |-> "reset", v |-> 0, c |-> 0, ret |-> 0]
    /\ prevCount' = count
    /\ ops' = ops + 1
    /\ UNCHANGED <<phase, ctorVars, threadVars, genVars, concVars, timerVars,
                   platformVars>>

Total ==
    /\ phase = "ready"
    /\ ops < MaxOps
    /\ lastOp' = [op |-> "total", v |-> 0, c |-> 0, ret |-> total(count)]
    /\ prevCount' = count
    /\ ops' = ops + 1
    /\ UNCHANGED <<phase, count, ctorVars, threadVars, genVars, concVars,
                   timerVars, platformVars>>

Next == ConstructDefault \/ Construct \/ Add \/ GetBin \/ Reset \/ Total

Spec == Init /\ [][Next]_vars

\* ------------------------------------------------- concurrent add() callers
\* NumThreads threads, each calling add(value, 1) AddsPerThread times on one
\* histogram built by the default constructor.  add() is findBin(), which
\* reads only the immutable bins, and then incr(), one atomic fetch_add.
AddersInit ==
    /\ phase = "ready"
    /\ generator = DefaultGenerator
    /\ nbins \in 1..MaxN
    /\ \E bld \in Builds :
         LET r == fill(DefaultGenerator, nbins, bld)
         IN /\ bins = r.bins
            /\ generated = r.generated
            /\ gencalls = r.calls
    /\ count = Zeros(bins)
    /\ error = ""
    /\ verified = verify(bins)
    /\ gobj = NoGen
    /\ gbuild = NoBuild
    /\ glog = <<>>
    /\ built = <<>>
    /\ lastOp = NoOp
    /\ prevCount = <<>>
    /\ ops = 0
    /\ value \in T
    /\ pc = [t \in Threads |-> "idle"]
    /\ found = [t \in Threads |-> 0]
    /\ left = [t \in Threads |-> AddsPerThread]
    /\ NoConc
    /\ NoTimer
    /\ NoPlatform

AdderFind(t) ==
    /\ phase = "ready"
    /\ pc[t] = "idle"
    /\ left[t] > 0
    /\ found' = [found EXCEPT ![t] = findBin(bins, value)]
    /\ pc' = [pc EXCEPT ![t] = "incr"]
    /\ UNCHANGED <<phase, count, ctorVars, seqVars, genVars, concVars, value,
                   left, timerVars, platformVars>>

AdderIncr(t) ==
    /\ phase = "ready"
    /\ pc[t] = "incr"
    /\ IF found[t] = 0
       THEN phase' = "crashed" /\ count' = count
       ELSE phase' = phase /\ count' = [count EXCEPT ![found[t]] = incr(@, 1)]
    /\ pc' = [pc EXCEPT ![t] = "idle"]
    /\ left' = [left EXCEPT ![t] = @ - 1]
    /\ UNCHANGED <<ctorVars, seqVars, genVars, concVars, value, found,
                   timerVars, platformVars>>

AddersNext == \E t \in Threads : AdderFind(t) \/ AdderIncr(t)

SpecAdders == AddersInit /\ [][AddersNext]_vars

\* --------------------------------- add() racing with reset() and total()
\* NumThreads threads each make ConcAdds calls add(v, c), c fixed per thread,
\* on one histogram
\* built by the default constructor, beside one caller of reset() or one
\* caller of total().  Every load, store and fetch_add of a
\* std::atomic counter is one step; std::for_each and std::accumulate visit
\* the bins one at a time, in order.
ConcValues == {TMin, TMax}
ConcCounts == {1, INT_MAX + 1}

ConcInit ==
    /\ phase = "ready"
    /\ generator = DefaultGenerator
    /\ nbins \in 1..MaxN
    /\ \E bld \in Builds :
         LET r == fill(DefaultGenerator, nbins, bld)
         IN /\ bins = r.bins
            /\ generated = r.generated
            /\ gencalls = r.calls
    /\ count = Zeros(bins)
    /\ error = ""
    /\ verified = verify(bins)
    /\ gobj = NoGen
    /\ gbuild = NoBuild
    /\ glog = <<>>
    /\ built = <<>>
    /\ lastOp = NoOp
    /\ prevCount = <<>>
    /\ ops = 0
    /\ value = 0
    /\ pc = [t \in Threads |-> "idle"]
    /\ found = [t \in Threads |-> 0]
    /\ left = [t \in Threads |-> ConcAdds]
    /\ amount \in [Threads -> ConcCounts]
    /\ \E other \in {"reset", "total"} :
         /\ rpc = IF other = "reset" THEN "run" ELSE "off"
         /\ tpc = IF other = "total" THEN "idle" ELSE "off"
    /\ rpos = 1
    /\ tpos = 1
    /\ tacc = 0
    /\ tret = 0
    /\ tstart = 0
    /\ tend = 0
    /\ late = Zeros(bins)
    /\ wrapped = FALSE
    /\ NoTimer
    /\ NoPlatform

\* add(v, c), first half: findBin(v).
ConcFind(t) ==
    /\ phase = "ready"
    /\ pc[t] = "idle"
    /\ left[t] > 0
    /\ \E v \in ConcValues :
         found' = [found EXCEPT ![t] = findBin(bins, v)]
    /\ pc' = [pc EXCEPT ![t] = "incr"]
    /\ UNCHANGED <<phase, count, ctorVars, seqVars, genVars, value, left,
                   concVars, timerVars, platformVars>>

\* add(v, c), second half: ->incr(c) on the bin found.
ConcIncr(t) ==
    /\ phase = "ready"
    /\ pc[t] = "incr"
    /\ IF found[t] = 0
       THEN phase' = "crashed" /\ count' = count /\ UNCHANGED ghostVars
       ELSE /\ phase' = phase
            /\ count' = [count EXCEPT ![found[t]] = incr(@, amount[t])]
            /\ late' = [late EXCEPT ![found[t]] = ToSize(@ + amount[t])]
            /\ wrapped' = (wrapped \/ count[found[t]] + amount[t] > SIZE_MAX)
    /\ pc' = [pc EXCEPT ![t] = "idle"]
    /\ left' = [left EXCEPT ![t] = @ - 1]
    /\ found' = [found EXCEPT ![t] = 0]
    /\ UNCHANGED <<ctorVars, seqVars, genVars, value, amount, resetVars,
                   totalVars, timerVars, platformVars>>

\* reset(): std::for_each calls set(0) on the next bin.
ResetStep ==
    /\ phase = "ready"
    /\ rpc = "run"
    /\ count' = [count EXCEPT ![rpos] = set(@, 0)]
    /\ late' = [late EXCEPT ![rpos] = 0]
    /\ rpos' = rpos + 1
    /\ rpc' = IF rpos = Len(bins) THEN "done" ELSE "run"
    /\ UNCHANGED <<phase, ctorVars, seqVars, genVars, threadVars, amount,
                   totalVars, wrapped, timerVars, platformVars>>

\* total() is entered.
TotalStart ==
    /\ phase = "ready"
    /\ tpc = "idle"
    /\ tpc' = "run"
    /\ tpos' = 1
    /\ tacc' = 0
    /\ tstart' = Sum(count)
    /\ UNCHANGED <<phase, count, ctorVars, seqVars, genVars, threadVars,
                   amount, resetVars, tret, tend, ghostVars, timerVars,
                   platformVars>>

\* total(): std::accumulate reads the next bin's count().
TotalStep ==
    /\ phase = "ready"
    /\ tpc = "run"
    /\ tpos <= Len(bins)
    /\ tacc' = accStep(tacc, count[tpos])
    /\ tpos' = tpos + 1
    /\ UNCHANGED <<phase, count, ctorVars, seqVars, genVars, threadVars,
                   amount, resetVars, tpc, tret, tstart, tend, ghostVars,
                   timerVars, platformVars>>

\* total() returns the accumulator as a size_t.
TotalReturn ==
    /\ phase = "ready"
    /\ tpc = "run"
    /\ tpos > Len(bins)
    /\ tret' = ToSize(tacc)
    /\ tend' = Sum(count)
    /\ tpc' = "done"
    /\ UNCHANGED <<phase, count, ctorVars, seqVars, genVars, threadVars,
                   amount, resetVars, tpos, tacc, tstart, ghostVars,
                   timerVars, platformVars>>

ConcNext ==
    \/ \E t \in Threads : ConcFind(t) \/ ConcIncr(t)
    \/ ResetStep
    \/ TotalStart
    \/ TotalStep
    \/ TotalReturn

SpecConc == ConcInit /\ [][ConcNext]_vars

\* ------------------------------------------------------ GenericBlockTimer
\* Nanoseconds per microsecond and per millisecond, as the destructor and
\* log() divide.
NsPerUs == 1000
NsPerMs == 1000000
\* typedef GenericBlockTimer<Histogram<hrtime_t>, 10> BlockTimer
BlockTimerThreshold == 10
Thresholds == {0, BlockTimerThreshold}
TimerNames == {NoName, "op"}
\* Time that passes between two readings of the clock, in nanoseconds.
Deltas == {999, 10999999, 11000000}

\* spent / 1000 rounded to the nearest microsecond.
toMicros_round(spent) == (spent + NsPerUs \div 2) \div NsPerUs
\* ~GenericBlockTimer: spent / 1000
toMicros(spent) == spent \div NsPerUs

\* The test of log() with >= for >.
tookTooLong_geq(spent, name, thr) ==
    /\ thr > 0
    /\ name # NoName
    /\ spent \div NsPerMs >= thr
\* GenericBlockTimer::log: whether the warning goes to std::cerr.
tookTooLong(spent, name, thr) ==
    /\ thr > 0
    /\ name # NoName
    /\ spent \div NsPerMs > thr

\* One instantiation GenericBlockTimer<Histogram<T>, threshold> and one
\* histogram built by the default constructor; the timers' scopes nest.
TimerInit ==
    /\ phase = "ready"
    /\ generator = DefaultGenerator
    /\ nbins = MaxN
    /\ \E bld \in Builds :
         LET r == fill(DefaultGenerator, nbins, bld)
         IN /\ bins = r.bins
            /\ generated = r.generated
            /\ gencalls = r.calls
    /\ count = Zeros(bins)
    /\ error = ""
    /\ verified = verify(bins)
    /\ gobj = NoGen
    /\ gbuild = NoBuild
    /\ glog = <<>>
    /\ built = <<>>
    /\ lastOp = NoOp
    /\ prevCount = <<>>
    /\ ops = 0
    /\ value = 0
    /\ pc = [t \in Threads |-> "idle"]
    /\ found = [t \in Threads |-> 0]
    /\ left = [t \in Threads |-> 0]
    /\ NoConc
    /\ now = 0
    /\ ticks = 0
    /\ threshold \in Thresholds
    /\ timers = <<>>
    /\ made = 0
    /\ cerr = <<>>
    /\ outlog = 0
    /\ tadds = 0
    /\ lastExit = NoExit
    /\ NoPlatform

histVars == <<phase, count, ctorVars, seqVars, threadVars, genVars, concVars>>

\* The clock advances.
Tick ==
    /\ ticks < MaxTicks
    /\ \E d \in Deltas : now' = now + d
    /\ ticks' = ticks + 1
    /\ UNCHANGED <<histVars, threshold, timers, made, logVars, tadds,
                   lastExit, platformVars>>

\* GenericBlockTimer(d, n, o): a scope with a timer is entered.
TimerEnter ==
    /\ phase = "ready"
    /\ made < MaxTimers
    /\ \E d \in BOOLEAN, n \in TimerNames, o \in BOOLEAN :
         timers' = Append(timers, [dest |-> d, start |-> now, name |-> n,
                                   out |-> o])
    /\ made' = made + 1
    /\ UNCHANGED <<histVars, clockVars, threshold, logVars, tadds, lastExit,
                   platformVars>>

\* ~GenericBlockTimer: the innermost scope is left.
TimerExit ==
    /\ phase = "ready"
    /\ timers # <<>>
    /\ LET tm == timers[Len(timers)]
           spent == now - tm.start
           v == WrapT(toMicros(spent))
           b == findBin(bins, v)
       IN /\ timers' = SubSeq(timers, 1, Len(timers) - 1)
          /\ IF tm.dest
             THEN /\ tadds' = tadds + 1
                  /\ IF b = 0
                     THEN phase' = "crashed" /\ count' = count
                     ELSE /\ phase' = phase
                          /\ count' = [count EXCEPT ![b] = incr(@, 1)]
             ELSE UNCHANGED <<tadds, phase, count, platformVars>>
          /\ outlog' = IF tm.out /\ tm.name # NoName
                       THEN outlog + 1
                       ELSE outlog
          /\ cerr' = IF tookTooLong(spent, tm.name, threshold)
                     THEN Append(cerr, [name |-> tm.name,
                                        msec |-> spent \div NsPerMs])
                     ELSE cerr
          /\ lastExit' = [spent |-> spent, name |-> tm.name, dest |-> tm.dest,
                          v |-> v]
    /\ prevCount' = count
    /\ UNCHANGED <<ctorVars, lastOp, ops, threadVars, genVars, concVars,
                   clockVars, threshold, made, platformVars>>

TimerNext == Tick \/ TimerEnter \/ TimerExit

SpecTimer == TimerInit /\ [][TimerNext]_vars

\* ------------------------------------------------ a generator called directly
\* One provided generator object, called up to MaxCalls times as
\* std::generate would call it; glog keeps, per call, the generator as it was
\* before the call and what the call produced.
GenInit ==
    /\ phase = "new"
    /\ generator = NoGen
    /\ nbins = 0
    /\ bins = <<>>
    /\ count = <<>>
    /\ error = ""
    /\ verified = FALSE
    /\ generated = <<>>
    /\ gencalls = 0
    /\ lastOp = NoOp
    /\ prevCount = <<>>
    /\ ops = 0
    /\ value = 0
    /\ pc = [t \in Threads |-> "idle"]
    /\ found = [t \in Threads |-> 0]
    /\ left = [t \in Threads |-> 0]
    /\ gobj \in ProvidedGens
    /\ gbuild \in Builds
    /\ glog = <<>>
    /\ built = <<>>
    /\ NoConc
    /\ NoTimer
    /\ NoPlatform

GenCall ==
    /\ gobj # NoGen
    /\ Len(glog) < MaxCalls
    /\ IF glog = <<>> THEN TRUE ELSE glog[Len(glog)].err # "abort"
    /\ IF built = <<>> THEN TRUE ELSE built[Len(built)].err # "abort"
    /\ LET r == Call(gobj, gbuild)
       IN /\ glog' = Append(glog, [ok |-> r.ok, err |-> r.err, bin |-> r.bin,
                                   gen |-> gobj])
          /\ gobj' = r.gen
    /\ UNCHANGED <<phase, count, ctorVars, seqVars, threadVars, gbuild,
                   built, concVars, timerVars, platformVars>>

GenNext == GenCall

SpecGen == GenInit /\ [][GenNext]_vars

\* ------------------------------------------------ constructing from a generator
\* A caller that owns one generator object and, between its own calls on it,
\* constructs Histograms from it: Histogram(const G& generator, size_t n)
\* hands the object to fill(), which hands it to std::generate.

\* The generator objects the caller constructs from: the provided generators,
\* the fixed ones over strictly ascending input.
CopyGens ==
    {g \in ProvidedGens :
        g.kind = "fixed" =>
            \A i \in 1..(Len(g.input) - 1) : g.input[i] < g.input[i + 1]}

CopyInit ==
    /\ phase = "new"
    /\ generator = NoGen
    /\ nbins \in 1..MaxN
    /\ bins = <<>>
    /\ count = <<>>
    /\ error = ""
    /\ verified = FALSE
    /\ generated = <<>>
    /\ gencalls = 0
    /\ lastOp = NoOp
    /\ prevCount = <<>>
    /\ ops = 0
    /\ value = 0
    /\ pc = [t \in Threads |-> "idle"]
    /\ found = [t \in Threads |-> 0]
    /\ left = [t \in Threads |-> 0]
    /\ gobj \in CopyGens
    /\ gbuild \in Builds
    /\ glog = <<>>
    /\ built = <<>>
    /\ NoConc
    /\ NoTimer
    /\ NoPlatform

\* Histogram<T> h(gobj, nbins);
CopyConstruct ==
    /\ gobj # NoGen
    /\ Len(built) < MaxHists
    /\ IF glog = <<>> THEN TRUE ELSE glog[Len(glog)].err # "abort"
    /\ IF built = <<>> THEN TRUE ELSE built[Len(built)].err # "abort"
    /\ LET r == fill(gobj, nbins, gbuild)
       IN /\ built' = Append(built, [calls |-> Len(glog), n |-> nbins,
                                     ok |-> r.ok, err |-> r.err,
                                     bins |-> r.bins])
          /\ gobj' = r.caller
    /\ UNCHANGED <<phase, count, ctorVars, seqVars, threadVars, gbuild, glog,
                   concVars, timerVars, platformVars>>

CopyNext == GenCall \/ CopyConstruct

SpecCopy == CopyInit /\ [][CopyNext]_vars

\* ------------------------------------------------------- Couchbase::Thread
\* Thread objects, each started once by the thread that owns it.  The created
\* thread runs task_thread_main -> StartThreadDelegator::run -> thread_entry.
ThreadObjs == 1..MaxThreadObjs

ThreadState == {"Stopped", "Starting", "Running", "Zombie"}

ThreadInit ==
    /\ phase = "new"
    /\ generator = NoGen
    /\ nbins = 0
    /\ bins = <<>>
    /\ count = <<>>
    /\ error = ""
    /\ verified = FALSE
    /\ generated = <<>>
    /\ gencalls = 0
    /\ lastOp = NoOp
    /\ prevCount = <<>>
    /\ ops = 0
    /\ value = 0
    /\ pc = [t \in Threads |-> "idle"]
    /\ found = [t \in Threads |-> 0]
    /\ left = [t \in Threads |-> 0]
    /\ gobj = NoGen
    /\ gbuild = NoBuild
    /\ glog = <<>>
    /\ built = <<>>
    /\ NoConc
    /\ NoTimer
    /\ state = [o \in ThreadObjs |-> "Stopped"]
    /\ startpc = [o \in ThreadObjs |-> "idle"]
    /\ entrypc = [o \in ThreadObjs |-> "none"]
    /\ mutex = [o \in ThreadObjs |-> "free"]
    /\ runSets \in [ThreadObjs -> BOOLEAN]
    /\ terminated = FALSE
    /\ NoBacktrace

notThread == <<histVars, timerVars, btVars>>

\* start(): std::unique_lock<std::mutex> lock(synchronization.mutex);
StartLock(o) ==
    /\ ~terminated
    /\ startpc[o] = "idle"
    /\ mutex[o] = "free"
    /\ mutex' = [mutex EXCEPT ![o] = "start"]
    /\ startpc' = [startpc EXCEPT ![o] = "locked"]
    /\ UNCHANGED <<state, entrypc, runSets, terminated, notThread>>

\* start(): state = ThreadState::Starting;
StartSetStarting(o) ==
    /\ ~terminated
    /\ startpc[o] = "locked"
    /\ state' = [state EXCEPT ![o] = "Starting"]
    /\ startpc' = [startpc EXCEPT ![o] = "create"]
    /\ UNCHANGED <<entrypc, mutex, runSets, terminated, notThread>>

\* start(): cb_create_thread(&thread_id, task_thread_main, this, 0) returns 0
\* and the new thread exists.
StartCreate(o) ==
    /\ ~terminated
    /\ startpc[o] = "create"
    /\ entrypc' = [entrypc EXCEPT ![o] = "entry"]
    /\ startpc' = [startpc EXCEPT ![o] = "test_running"]
    /\ UNCHANGED <<state, mutex, runSets, terminated, notThread>>

\* start(): cb_create_thread(...) != 0, no thread was created.
StartCreateFails(o) ==
    /\ ~terminated
    /\ startpc[o] = "create"
    /\ startpc' = [startpc EXCEPT ![o] = "failed"]
    /\ UNCHANGED <<state, entrypc, mutex, runSets, terminated, notThread>>

\* start(): state = ThreadState::Stopped;
StartSetStopped(o) ==
    /\ ~terminated
    /\ startpc[o] = "failed"
    /\ state' = [state EXCEPT ![o] = "Stopped"]
    /\ startpc' = [startpc EXCEPT ![o] = "throw"]
    /\ UNCHANGED <<entrypc, mutex, runSets, terminated, notThread>>

\* start(): throw std::bad_alloc(); the unwinding destroys lock.
StartThrow(o) ==
    /\ ~terminated
    /\ startpc[o] = "throw"
    /\ mutex' = [mutex EXCEPT ![o] = "free"]
    /\ startpc' = [startpc EXCEPT ![o] = "thrown"]
    /\ UNCHANGED <<state, entrypc, runSets, terminated, notThread>>

\* The second operand of the loop condition, as a loop that leaves while the
\* thread is still starting.
notZombie_starting(st) == st # "Starting"
\* The operands of  state != ThreadState::Running && state != ThreadState::Zombie
\* (each one atomic load of state).
notRunning(st) == st # "Running"
notZombie(st) == st # "Zombie"

\* start(): while (state != ThreadState::Running && ...
StartTestRunning(o) ==
    /\ ~terminated
    /\ startpc[o] = "test_running"
    /\ startpc' = [startpc EXCEPT ![o] = IF notRunning(state[o])
                                          THEN "test_zombie" ELSE "unlock"]
    /\ UNCHANGED <<state, entrypc, mutex, runSets, terminated, notThread>>

\* start(): ... && state != ThreadState::Zombie) synchronization.cond.wait(lock)
\* wait() releases the mutex and blocks.
StartTestZombie(o) ==
    /\ ~terminated
    /\ startpc[o] = "test_zombie"
    /\ IF notZombie(state[o])
       THEN /\ startpc' = [startpc EXCEPT ![o] = "waiting"]
            /\ mutex' = [mutex EXCEPT ![o] = "free"]
       ELSE /\ startpc' = [startpc EXCEPT ![o] = "unlock"]
            /\ UNCHANGED mutex
    /\ UNCHANGED <<state, entrypc, runSets, terminated, notThread>>

\* cond.wait(lock) returns, notified or spuriously, holding the mutex again.
StartWake(o) ==
    /\ ~terminated
    /\ startpc[o] = "waiting"
    /\ mutex[o] = "free"
    /\ mutex' = [mutex EXCEPT ![o] = "start"]
    /\ startpc' = [startpc EXCEPT ![o] = "test_running"]
    /\ UNCHANGED <<state, entrypc, runSets, terminated, notThread>>

\* start() returns; lock's destructor releases the mutex.
StartReturn(o) ==
    /\ ~terminated
    /\ startpc[o] = "unlock"
    /\ mutex' = [mutex EXCEPT ![o] = "free"]
    /\ startpc' = [startpc EXCEPT ![o] = "returned"]
    /\ UNCHANGED <<state, entrypc, runSets, terminated, notThread>>

\* thread_entry(): cb_set_thread_name(name.c_str()); run(); the subclass's
\* run() calls setRunning() or does not.
EntryRun(o) ==
    /\ ~terminated
    /\ entrypc[o] = "entry"
    /\ entrypc' = [entrypc EXCEPT ![o] = IF runSets[o] THEN "set_running"
                                          ELSE "check"]
    /\ UNCHANGED <<state, startpc, mutex, runSets, terminated, notThread>>

\* setState(st) takes synchronization.mutex, ...
setStateLock(o, from, to) ==
    /\ ~terminated
    /\ entrypc[o] = from
    /\ mutex[o] = "free"
    /\ mutex' = [mutex EXCEPT ![o] = "entry"]
    /\ entrypc' = [entrypc EXCEPT ![o] = to]
    /\ UNCHANGED <<state, startpc, runSets, terminated, notThread>>

\* ... stores the state, notifies synchronization.cond and releases the mutex.
setStateStore(o, st, from, to) ==
    /\ ~terminated
    /\ entrypc[o] = from
    /\ state' = [state EXCEPT ![o] = st]
    /\ mutex' = [mutex EXCEPT ![o] = "free"]
    /\ entrypc' = [entrypc EXCEPT ![o] = to]
    /\ UNCHANGED <<startpc, runSets, terminated, notThread>>

\* setRunning(): setState(ThreadState::Running), called from run().
setRunning(o) ==
    \/ setStateLock(o, "set_running", "store_running")
    \/ setStateStore(o, "Running", "store_running", "check")

\* thread_entry(): if (state != ThreadState::Running) throw std::logic_error;
\* the exception leaves task_thread_main and the process is terminated.
EntryCheck(o) ==
    /\ ~terminated
    /\ entrypc[o] = "check"
    /\ IF state[o] # "Running"
       THEN /\ entrypc' = [entrypc EXCEPT ![o] = "threw"]
            /\ terminated' = TRUE
       ELSE /\ entrypc' = [entrypc EXCEPT ![o] = "set_zombie"]
            /\ UNCHANGED terminated
    /\ UNCHANGED <<state, startpc, mutex, runSets, notThread>>

\* thread_entry(): setState(ThreadState::Zombie);
EntryZombie(o) ==
    \/ setStateLock(o, "set_zombie", "store_zombie")
    \/ setStateStore(o, "Zombie", "store_zombie", "done")

ThreadNext ==
    \E o \in ThreadObjs :
        \/ StartLock(o)
        \/ StartSetStarting(o)
        \/ StartCreate(o)
        \/ StartCreateFails(o)
        \/ StartSetStopped(o)
        \/ StartThrow(o)
        \/ StartTestRunning(o)
        \/ StartTestZombie(o)
        \/ StartWake(o)
        \/ StartReturn(o)
        \/ EntryRun(o)
        \/ setRunning(o)
        \/ EntryCheck(o)
        \/ EntryZombie(o)

SpecThread == ThreadInit /\ [][ThreadNext]_vars

\* ----------------------------------------------------------- backtrace.c
\* print_backtrace_to_buffer(indent, buffer, size).  Strings are modelled by
\* their lengths, the buffer by the indices written; size_t and int are the
\* scaled types of above.  MaxFrames stands for MAX_FRAMES, MaxText for the
\* longest text of a frame (msg[200]) and of indent.
BufSizes == {0, 1, 2, 4, 2 * MaxFrames + 2}
TextLens == 0..MaxText
\* "<frame limit reached, possible truncation>"
LimitLen == MaxText
Flavors == {"c99", "msvc"}

Min(a, b) == IF a <= b THEN a ELSE b

\* snprintf(s, n, format, ...) whose formatted text has len characters: the
\* value returned and the number of bytes stored at s.  C99 stores at most n
\* bytes, the last one the terminator, and returns len whatever n is;
\* _snprintf (win32/strings.h) stores at most n bytes, the terminator only if
\* there is room, and returns a negative value when len > n.
snprintf(fl, n, len) ==
    IF fl = "c99"
    THEN [ret |-> len, stored |-> IF n = 0 THEN 0 ELSE Min(len, n - 1) + 1]
    ELSE IF len < n THEN [ret |-> len, stored |-> len + 1]
    ELSE IF len = n THEN [ret |-> len, stored |-> n]
    ELSE [ret |-> -1, stored |-> n]

\* memory_cb(ctx, frame) with a frame text of len characters: the context
\* afterwards and whether a byte was stored outside buffer[0..size-1].
memory_cb(c, len, fl) ==
    IF c.error
    THEN [ctx |-> c, out |-> FALSE]
    ELSE LET r == snprintf(fl, ToSize(c.size - c.offset - 1),
                           c.indent + len + 1)
         IN [ctx |-> IF r.ret < 0 THEN [c EXCEPT !.error = TRUE]
                     ELSE [c EXCEPT !.offset = ToSize(c.offset + r.ret)],
             out |-> r.stored > 0 /\ c.offset + r.stored > c.size]

NoHistogram ==
    /\ phase = "new"
    /\ generator = NoGen
    /\ nbins = 0
    /\ bins = <<>>
    /\ count = <<>>
    /\ error = ""
    /\ verified = FALSE
    /\ generated = <<>>
    /\ gencalls = 0
    /\ lastOp = NoOp
    /\ prevCount = <<>>
    /\ ops = 0
    /\ value = 0
    /\ pc = [t \in Threads |-> "idle"]
    /\ found = [t \in Threads |-> 0]
    /\ left = [t \in Threads |-> 0]
    /\ gobj = NoGen
    /\ gbuild = NoBuild
    /\ glog = <<>>
    /\ built = <<>>
    /\ NoConc

\* print_backtrace_to_buffer: struct context c = {...}; print_backtrace has
\* captured active_frames frames and is about to start at frame 1.
BtInit ==
    /\ NoHistogram
    /\ NoTimer
    /\ NoThread
    /\ context \in [indent : TextLens, size : BufSizes, offset : {0},
                    error : {FALSE}]
    /\ btpc = "frames"
    /\ active \in 0..MaxFrames
    /\ frameIx = 1
    /\ flavor \in Flavors
    /\ outside = FALSE

notBacktrace == <<histVars, timerVars, thrVars>>

\* print_backtrace: one turn of the loop, describe_address and write_cb.
BtFrame ==
    /\ btpc = "frames"
    /\ frameIx < active
    /\ \E len \in TextLens :
          LET r == memory_cb(context, len, flavor)
          IN /\ context' = r.ctx
             /\ outside' = (outside \/ r.out)
    /\ frameIx' = frameIx + 1
    /\ UNCHANGED <<btpc, active, flavor, notBacktrace>>

\* print_backtrace: the loop is left; if (active_frames == MAX_FRAMES) the
\* frame-limit text is written.
BtLimit ==
    /\ btpc = "frames"
    /\ ~(frameIx < active)
    /\ LET r == IF active = MaxFrames
                THEN memory_cb(context, LimitLen, flavor)
                ELSE [ctx |-> context, out |-> FALSE]
       IN /\ context' = r.ctx
          /\ outside' = (outside \/ r.out)
    /\ btpc' = "return"
    /\ UNCHANGED <<active, frameIx, flavor, notBacktrace>>

\* print_backtrace_to_buffer: return !c.error;
BtReturn ==
    /\ btpc = "return"
    /\ btpc' = IF context.error THEN "false" ELSE "true"
    /\ UNCHANGED <<context, active, frameIx, flavor, outside, notBacktrace>>

BtNext == BtFrame \/ BtLimit \/ BtReturn

SpecBacktrace == BtInit /\ [][BtNext]_vars

\* ============================================================ the claims
Ready == phase = "ready"

Contiguous(bs) == \A i \in 1..(Len(bs) - 1) : bs[i].end = bs[i + 1].start
Covering(bs) == bs[1].start = TMin /\ bs[Len(bs)].end = TMax
Ascending(bs) ==
    /\ \A i \in 1..Len(bs) : bs[i].start < bs[i].end
    /\ \A i \in 1..(Len(bs) - 1) : bs[i].start < bs[i + 1].start
Accepting(bs, v) == {i \in 1..Len(bs) : accepts(bs[i], v)}
\* The reference lookup: the first bin with start <= v < end, 0 when none.
LinearScan(bs, v) ==
    LET hits == {i \in 1..Len(bs) : bs[i].start <= v /\ v < bs[i].end}
    IN IF hits = {} THEN 0 ELSE CHOOSE i \in hits : \A j \in hits : i <= j

\* C1: in every constructed Histogram (any generator, any n >= 1) adjacent
\* bins are contiguous, the first bin starts at the minimum of T and the
\* last bin ends at the maximum of T.
C1_ContiguousCovering == Ready => Contiguous(bins) /\ Covering(bins)

\* What does hold of fill(): the bins of the three provided generators are
\* contiguous and covering, and the padding makes any histogram covering.
ProvidedContiguousCovering ==
    (Ready /\ generator.kind # "custom") => Contiguous(bins) /\ Covering(bins)
AlwaysCovering == Ready => Covering(bins)

\* C2: in every Histogram a provided generator (growing-width, fixed-input,
\* exponential) lets construction complete for, the bins ascend strictly by
\* start and every bin has start < end.
C2_StrictlyAscending ==
    (Ready /\ generator.kind # "custom") => Ascending(bins)

\* C3: for every value v of T exactly one bin accepts v, and the maximum of T
\* is accepted by the last bin only.  Stated on the histograms most
\* favourable to the claim: verify() returned true and the bins ascend.
C3_ExactlyOneAccepts ==
    (Ready /\ verified /\ Ascending(bins)) =>
        /\ \A v \in T : Cardinality(Accepting(bins, v)) = 1
        /\ Accepting(bins, TMax) = {Len(bins)}

\* C4: on every constructed Histogram findBin(v) is never nullptr; it is the
\* last bin for v = max and otherwise the bin a linear scan for
\* start <= v < end finds.
C4_FindBinNeverNull ==
    Ready => \A v \in T :
        /\ findBin(bins, v) # 0
        /\ v = TMax => findBin(bins, v) = Len(bins)
        /\ v # TMax => findBin(bins, v) = LinearScan(bins, v)

\* C5: a bin sequence verify() rejects never becomes a usable Histogram:
\* construction fails instead.
C5_RejectedNeverConstructed == Ready => verified

\* What does hold of findBin(): on contiguous, covering bins (those verify()
\* accepts) it never returns nullptr, and when the bins also ascend it agrees
\* with the linear scan.
FindBinOnVerified ==
    (Ready /\ verified) => \A v \in T : findBin(bins, v) # 0
FindBinOnAscending ==
    (Ready /\ verified /\ Ascending(bins)) =>
        \A v \in T \ {TMax} : findBin(bins, v) = LinearScan(bins, v)

\* C6: once NumThreads threads have each finished AddsPerThread calls of
\* add(value, 1), the bin owning value counts NumThreads * AddsPerThread.
AddersDone == \A t \in Threads : pc[t] = "idle" /\ left[t] = 0
C6_NoLostIncrement ==
    AddersDone =>
        /\ phase = "ready"
        /\ count[findBin(bins, value)] = NumThreads * AddsPerThread
        /\ \A i \in 1..Len(count) : i # findBin(bins, value) => count[i] = 0
C6_Witness ==
    /\ AddersDone
    /\ Len(bins) > 1
    /\ count[findBin(bins, value)] = NumThreads * AddsPerThread

\* C7: a sequential add(v, c) adds exactly c to the count of the bin
\* getBin(v) returns and leaves every other count alone, and an add(v, 1)
\* raises what total() returns by exactly 1.
C7_AddAddsExactly ==
    [][(lastOp'.op = "add" /\ lastOp'.ret # 0) =>
          /\ count'[lastOp'.ret] = ToSize(count[lastOp'.ret] + lastOp'.c)
          /\ lastOp'.ret = findBin(bins, lastOp'.v)
          /\ \A i \in 1..Len(count) : i # lastOp'.ret => count'[i] = count[i]
          /\ lastOp'.c = 1 => total(count') = ToSize(total(count) + 1)]_vars

\* What does hold of add(): the counters change exactly as C7 says.
AddCountsExactly ==
    [][(lastOp'.op = "add" /\ lastOp'.ret # 0) =>
          /\ count'[lastOp'.ret] = ToSize(count[lastOp'.ret] + lastOp'.c)
          /\ lastOp'.ret = findBin(bins, lastOp'.v)
          /\ \A i \in 1..Len(count) : i # lastOp'.ret => count'[i] = count[i]
          /\ bins' = bins]_vars

\* C8: total() returns the sum of the counts of all bins, whatever the
\* counts, also when the sum exceeds INT_MAX.
C8_TotalIsSum == Ready => total(count) = ToSize(Sum(count))

\* What does hold of total(): it is the sum while the sum is at most INT_MAX.
TotalIsSmallSum ==
    (Ready /\ Sum(count) <= INT_MAX) => total(count) = Sum(count)

\* C9: reset() zeroes every count, so that a total() right after it returns
\* 0, and it changes neither the number of bins nor any boundary.
C9_ResetZeroes ==
    [][lastOp'.op = "reset" =>
          /\ \A i \in 1..Len(count') : count'[i] = 0
          /\ total(count') = 0
          /\ Len(count') = Len(count)
          /\ bins' = bins
          /\ phase' = "ready"]_vars
C9_Witness ==
    /\ lastOp.op = "reset"
    /\ Len(bins) > 1
    /\ \E i \in 1..Len(prevCount) : prevCount[i] > 0
    /\ \E i \in 1..Len(prevCount) : prevCount[i] = 0
    /\ total(count) = 0

\* C10: constructing with bin count n from a fixed-input generator that holds
\* fewer than n + 1 values fails with the generator's overflow error; no
\* Histogram, truncated or otherwise, comes out of it.
C10_ExhaustionFails ==
    (generator.kind = "fixed" /\ Len(generator.input) < nbins + 1) =>
        /\ phase = "failed"
        /\ error = "overflow_error"
        /\ bins = <<>>
\* The same for a sequence of at least one value.
ExhaustionFailsNonEmpty ==
    (generator.kind = "fixed" /\ Len(generator.input) >= 1) =>
        C10_ExhaustionFails
C10_Witness ==
    /\ phase = "failed"
    /\ error = "overflow_error"
    /\ generator.kind = "fixed"
    /\ Len(generator.input) = nbins
    /\ nbins >= 2

\* ---------------------------------------------------------------- C11
\* The generator as it was after call j of glog.
GenAfter(j) == IF j = Len(glog) THEN gobj ELSE glog[j + 1].gen
\* The generator as it was constructed.
GenFirst == IF glog = <<>> THEN gobj ELSE glog[1].gen

\* C11: a fixed-input generator over k values yields [input[i], input[i+1])
\* on its i-th call for the first k - 1 calls; every call made when fewer than
\* two values remain (all calls when k < 2) throws the overflow error and
\* leaves the generator where it was, so every later call throws too.
C11_FixedInputCalls ==
    gobj.kind = "fixed" =>
        \A j \in 1..Len(glog) :
            IF j <= Len(gobj.input) - 1
            THEN /\ glog[j].ok
                 /\ glog[j].bin = HistogramBin(gobj.input[j], gobj.input[j + 1])
            ELSE /\ ~glog[j].ok
                 /\ glog[j].err = "overflow_error"
                 /\ GenAfter(j) = glog[j].gen

\* The same over a sequence that holds at least one value: there it + 1 never
\* passes end().
FixedInputCallsNonEmpty ==
    (gobj.kind = "fixed" /\ Len(gobj.input) >= 1) => C11_FixedInputCalls
FixedInputCallsNonEmptyWitness ==
    /\ gobj.kind = "fixed"
    /\ Len(gobj.input) = 3
    /\ Len(glog) = 3
    /\ glog[2].ok
    /\ ~glog[3].ok

\* ---------------------------------------------------------------- C12
\* The width of call i (1-based) of a growing-width generator constructed as
\* g0, as a real number: width * growth^(i-1), numerator and denominator.
WidthNum(g0, i) == g0.width[1] * g0.growth[1]^(i - 1)
WidthDen(g0, i) == g0.width[2] * g0.growth[2]^(i - 1)
\* That width with its fraction dropped.
WidthFloor(g0, i) == Trunc(WidthNum(g0, i), WidthDen(g0, i))
\* The cursor before call i when every call advanced it by the floor.
RECURSIVE CursorFloor(_, _)
CursorFloor(g0, i) ==
    IF i = 1 THEN g0.start
    ELSE WrapT(CursorFloor(g0, i - 1) + WidthFloor(g0, i - 1))

\* C12 as stated: each call of a growing-width generator yields
\* [cursor, cursor + width), then the cursor is advanced by width and width is
\* multiplied by growth.  Stated for calls whose cursor + width fits T.
C12_GrowingExactWidth ==
    gobj.kind = "growing" =>
        \A j \in 1..Len(glog) :
            LET g == glog[j].gen
                fits == /\ g.width[1] >= 0
                        /\ g.start * g.width[2] + g.width[1] <= TMax * g.width[2]
            IN fits =>
                 /\ glog[j].bin.start = g.start
                 /\ glog[j].bin.end * g.width[2] =
                        g.start * g.width[2] + g.width[1]
                 /\ GenAfter(j).start = glog[j].bin.end
                 /\ GenAfter(j).width[1] * g.width[2] * g.growth[2] =
                        g.width[1] * g.growth[1] * GenAfter(j).width[2]

\* C12, amended: call i yields [cursor, cursor + floor(width)) in T's
\* arithmetic, where width = width0 * growth^(i-1) keeps its fraction from call
\* to call and the cursor advances by floor(width) only (stated while the
\* floors are representable in T); consecutive bins are contiguous; start 0,
\* width 1 and growth 2 give [0,1), [1,3), [3,7); with growth 1 every bin has
\* the same width.
C12_GrowingFloorWidth ==
    gobj.kind = "growing" =>
        LET g0 == GenFirst
        IN /\ \A j \in 1..Len(glog) :
                /\ glog[j].ok
                /\ (\A i \in 1..j : WidthFloor(g0, i) \in T) =>
                     /\ glog[j].bin.start = CursorFloor(g0, j)
                     /\ glog[j].bin.end =
                            WrapT(CursorFloor(g0, j) + WidthFloor(g0, j))
                     /\ GenAfter(j).start = glog[j].bin.end
                     /\ GenAfter(j).width[1] * WidthDen(g0, j + 1) =
                            WidthNum(g0, j + 1) * GenAfter(j).width[2]
           /\ \A j \in 1..(Len(glog) - 1) :
                glog[j].bin.end = glog[j + 1].bin.start
           /\ (g0 = GrowingWidthGenerator(0, 1, <<2, 1>>) /\ Len(glog) = 3) =>
                /\ glog[1].bin = HistogramBin(0, 1)
                /\ glog[2].bin = HistogramBin(1, 3)
                /\ glog[3].bin = HistogramBin(3, 7)
           /\ g0.growth = <<1, 1>> =>
                \A j \in 1..Len(glog) :
                    glog[j].bin.end = WrapT(glog[j].bin.start + g0.width[1])
C12_Witness ==
    /\ gobj.kind = "growing"
    /\ Len(glog) = 3
    /\ GenFirst.growth = <<3, 2>>
    /\ GenFirst.width = <<3, 1>>
    /\ glog[2].bin = HistogramBin(3, 7)

DefaultBins(n) ==
    <<HistogramBin(0, 1)>> \o
    [i \in 1..n |-> HistogramBin(2^(i - 1), 2^i)] \o
    <<HistogramBin(2^n, TMax)>>

DefaultBinsWitness ==
    /\ Ready
    /\ generator = DefaultGenerator
    /\ nbins = 2
    /\ bins = <<HistogramBin(0, 1), HistogramBin(1, 2), HistogramBin(2, 4),
                HistogramBin(4, TMax)>>
\* A construction that pads nothing: n bins.
NoPaddingWitness ==
    /\ Ready
    /\ Len(bins) = nbins

\* ---------------------------------------------------------------- C15
\* C15: a total() that ran beside add() calls of other threads, with no
\* reset(), returns at least the sum of the counters at the moment it was
\* entered and at most their sum at the moment it returned.  Stated for runs
\* in which no counter has overflowed.
C15_TotalBracketed ==
    (tpc = "done" /\ rpc = "off" /\ ~wrapped) =>
        tstart <= tret /\ tret <= tend

\* The same while the sum of the counters stays within int.
TotalBracketedSmall ==
    (tpc = "done" /\ rpc = "off" /\ tend <= INT_MAX) =>
        tstart <= tret /\ tret <= tend
\* total() overlapped an add(): the sum moved while it ran.
TotalBracketedSmallWitness ==
    /\ tpc = "done"
    /\ rpc = "off"
    /\ tend <= INT_MAX
    /\ tstart < tret
    /\ tret < tend

\* ---------------------------------------------------------------- C16
ConcDone ==
    /\ rpc = "done"
    /\ \A t \in Threads : pc[t] = "idle" /\ left[t] = 0

\* C16: when reset() raced with add() calls and all of them have completed,
\* every bin's counter is exactly the (size_t) sum of the amounts of the adds
\* applied to it after reset() zeroed it.
C16_ResetRace ==
    (phase = "ready" /\ ConcDone) =>
        \A b \in 1..Len(bins) : count[b] = late[b]
\* One add() was wiped by the zeroing of its bin and another survived it.
C16_Witness ==
    /\ phase = "ready"
    /\ ConcDone
    /\ \E b \in 1..Len(bins) :
         /\ count[b] > 0
         /\ count[b] < Sum([t \in Threads |-> amount[t]])
         /\ \A t \in Threads : amount[t] = 1

\* ---------------------------------------------------------------- C17
\* C17: once the Histogram is constructed no call (add, getBin, reset, total)
\* changes the number of bins, their order or any bin's start or end: only
\* the counters change.
C17_BinsFrozen ==
    [][phase = "ready" =>
          /\ bins' = bins
          /\ Len(count') = Len(count)
          /\ Len(count') = Len(bins')
          /\ nbins' = nbins]_vars
\* An add() and then a reset() have run on a Histogram of several bins.
C17_Witness ==
    /\ Ready
    /\ ops = MaxOps
    /\ lastOp.op = "reset"
    /\ Len(bins) >= 3
    /\ Len(count) = Len(bins)
    /\ \E i \in 1..Len(prevCount) : prevCount[i] > 0

\* ---------------------------------------------------------------- C18
\* The bins whose counter a step changed.
Changed == {i \in 1..Len(count) : count'[i] # count[i]}

\* C18 as stated: in every step that is not a reset() no counter decreases,
\* and a step that changes a counter increases it by the amount of one add().
C18_NeverDecreases ==
    [][(phase = "ready" /\ lastOp'.op # "reset") =>
          /\ \A i \in 1..Len(count) : count'[i] >= count[i]
          /\ Changed # {} =>
                /\ lastOp'.op = "add"
                /\ Changed = {lastOp'.ret}
                /\ count'[lastOp'.ret] = count[lastOp'.ret] + lastOp'.c]_vars

\* C18, amended: a step that is not a reset() and changes a counter is one
\* add(), and it replaces that counter by counter + amount modulo 2^SizeBits;
\* the counter decreases only when that sum passes SIZE_MAX.
C18_GrowsModulo ==
    [][(phase = "ready" /\ lastOp'.op # "reset") =>
          /\ Changed # {} =>
                /\ lastOp'.op = "add"
                /\ Changed = {lastOp'.ret}
          /\ lastOp'.op = "add" /\ lastOp'.ret # 0 =>
                LET b == lastOp'.ret
                IN /\ count'[b] = (count[b] + lastOp'.c) % SizeMod
                   /\ count[b] + lastOp'.c <= SIZE_MAX =>
                        count'[b] = count[b] + lastOp'.c
                   /\ count'[b] < count[b] =>
                        count[b] + lastOp'.c > SIZE_MAX]_vars
\* A second add() to the same bin made its counter pass SIZE_MAX.
C18_Witness ==
    /\ Ready
    /\ lastOp.op = "add"
    /\ lastOp.ret # 0
    /\ prevCount[lastOp.ret] > 0
    /\ count[lastOp.ret] < prevCount[lastOp.ret]

\* The same of the threads' steps: every step beside reset()'s leaves each
\* counter alone or adds one thread's amount to it, modulo 2^SizeBits.
ConcGrowsModulo ==
    [][rpos' = rpos =>
          \A b \in 1..Len(count) :
              \/ count'[b] = count[b]
              \/ \E t \in Threads :
                    /\ pc[t] = "incr"
                    /\ found[t] = b
                    /\ count'[b] = (count[b] + amount[t]) % SizeMod]_vars

\* ---------------------------------------------------------------- C19
\* The step destroys a timer.
Exits == Len(timers') < Len(timers)

\* C19: a timer with a destination histogram makes exactly one add() on it,
\* when its scope is left, of the value (now - start) / 1000 (as a T) with
\* count 1: one bin's counter and the sum of the counters grow by 1, and an
\* elapsed time below one microsecond lands in the bin that contains 0.  A
\* timer without a destination makes no add(), and no other step of a timer
\* makes one.
C19_TimerAddsOnce ==
    [][IF Exits
       THEN LET tm == timers[Len(timers)]
                spent == now - tm.start
                v == (spent \div 1000) % 2^TBits
            IN IF tm.dest
               THEN /\ tadds' = tadds + 1
                    /\ lastExit'.v = v
                    /\ \E b \in 1..Len(bins) :
                         /\ accepts(bins[b], v)
                         /\ count' = [count EXCEPT ![b] = @ + 1]
                         /\ spent < 1000 =>
                              bins[b].start <= 0 /\ 0 < bins[b].end
                    /\ Sum(count') = Sum(count) + 1
               ELSE tadds' = tadds /\ count' = count
       ELSE tadds' = tadds /\ count' = count]_vars
\* Two timers have added: one that took 999 ns, into the bin of 0, and one
\* that took longer, into another bin.
C19_Witness ==
    /\ phase = "ready"
    /\ tadds = 2
    /\ timers = <<>>
    /\ lastExit.dest
    /\ lastExit.spent = 999
    /\ count[1] = 1
    /\ Sum(count) = 2

\* ---------------------------------------------------------------- C20
\* C20: destroying a timer writes the slow-operation warning to std::cerr if
\* and only if THRESHOLD_MS > 0, a name was given and the elapsed whole
\* milliseconds exceed THRESHOLD_MS (elapsed >= (THRESHOLD_MS + 1) ms); no
\* other step writes to std::cerr.
C20_WarnIff ==
    [][IF Exits
       THEN LET tm == timers[Len(timers)]
                spent == now - tm.start
                slow == /\ threshold > 0
                        /\ tm.name # NoName
                        /\ spent >= (threshold + 1) * 1000000
            IN /\ slow => /\ Len(cerr') = Len(cerr) + 1
                          /\ cerr'[Len(cerr')].name = tm.name
               /\ ~slow => cerr' = cerr
       ELSE cerr' = cerr]_vars
\* One named timer took 11 ms and was reported; the next took 10.999999 ms,
\* whole milliseconds equal to the threshold, and was not.
C20_Witness ==
    /\ threshold = BlockTimerThreshold
    /\ Len(cerr) = 1
    /\ cerr[1].msec = 11
    /\ lastExit.name = "op"
    /\ lastExit.spent = 10999999
\* With THRESHOLD_MS = 0 a named timer of 11 ms is not reported.
NoThresholdWitness ==
    /\ threshold = 0
    /\ lastExit.name = "op"
    /\ lastExit.spent >= 11000000
    /\ cerr = <<>>

\* ---------------------------------------------------------------- C21
\* C21: BlockTimer, the instantiation GenericBlockTimer<Histogram<hrtime_t>,
\* BlockTimerThreshold>, writes no slow-operation warning to std::cerr,
\* whatever the name and the elapsed time of the timers destroyed.
C21_BlockTimerSilent ==
    threshold = BlockTimerThreshold => cerr = <<>>

NegativeWidthWitness ==
    /\ Ready
    /\ generator.kind = "growing"
    /\ generator.growth[1] < 0
    /\ generator.width[1] > 0
    /\ nbins >= 2
    /\ verified
\* verify() did return false, for a caller-supplied generator.
RejectedWitness == Ready /\ ~verified

\* ------------------------------------------------------------------------ C23
\* What the next call on generator g would hand back.
NextBucket(g) ==
    LET r == Call(g, gbuild) IN [ok |-> r.ok, err |-> r.err, bin |-> r.bin]

\* Histograms constructed from the generator object in the same state (no call
\* of the caller's in between) with the same n have the same bins.
SameBuilt(b) ==
    \A i, j \in 1..Len(b) :
        b[i].calls = b[j].calls /\ b[i].n = b[j].n =>
            b[i].ok = b[j].ok /\ b[i].bins = b[j].bins

\* C23: constructing a Histogram from the caller's generator leaves the
\* generator object unchanged, so the next bucket it would yield is the same
\* before and after the construction, and two Histograms constructed from the
\* same generator object with the same n have identical bucket boundaries.
C23_GeneratorUnchanged ==
    [][Len(built') > Len(built) =>
          /\ gobj' = gobj
          /\ NextBucket(gobj') = NextBucket(gobj)
          /\ SameBuilt(built')]_vars

\* Two Histograms of two bins were constructed from a generator the caller had
\* already called once, and they are the same.
C23_Witness ==
    /\ Len(built) = 2
    /\ built[1].ok /\ built[2].ok
    /\ built[1].n = 2 /\ built[2].n = 2
    /\ built[1].calls = 1 /\ built[2].calls = 1
    /\ built[1].bins = built[2].bins
    /\ Len(glog) = 1
    /\ gobj = Call(glog[1].gen, gbuild).gen

\* ------------------------------------------------------------------------ C24
\* C24: start() has set the state to Starting when it creates the thread, has
\* returned normally only with the state Running or Zombie, and has thrown only
\* with the state back at Stopped and no thread created; in no interleaving
\* with thread_entry() is start() past its loop while the state is Stopped or
\* Starting.
C24_StartReturns ==
    \A o \in DOMAIN state :
        /\ startpc[o] = "create" => state[o] = "Starting"
        /\ entrypc[o] # "none" => state[o] # "Stopped"
        /\ startpc[o] \in {"unlock", "returned"} =>
               state[o] \in {"Running", "Zombie"}
        /\ startpc[o] \in {"throw", "thrown"} =>
               state[o] = "Stopped" /\ entrypc[o] = "none"

\* One start() returned while its thread was still in run(), after waiting;
\* another threw.
C24_Witness ==
    \E o, q \in DOMAIN state :
        /\ startpc[o] = "returned" /\ state[o] = "Running"
        /\ entrypc[o] = "check"
        /\ startpc[q] = "thrown"

ReturnedZombieWitness ==
    \E o \in DOMAIN state : startpc[o] = "returned" /\ entrypc[o] = "done"

\* ------------------------------------------------------------------------ C25
\* C25: print_backtrace_to_buffer never writes outside buffer[0..size-1]: after
\* every frame callback the running offset is at most size - 1, whatever the
\* number of frames and the lengths of their lines.
C25_OffsetInBuffer ==
    flavor \in Flavors /\ context.size >= 1 =>
        ~outside /\ context.offset <= context.size - 1

\* With _snprintf, which returns a negative value for a line that does not
\* fit, the callback stops at the first such line and the offset stays inside.
OffsetInBufferMsvc ==
    flavor = "msvc" /\ context.size >= 1 =>
        ~outside /\ context.offset <= context.size - 1

OffsetInBufferMsvcWitness ==
    flavor = "msvc" /\ context.size >= 1 /\ context.error /\ btpc = "false"

\* With a C99 snprintf a line longer than the room left moves the offset past
\* the buffer, and the next line is stored there.
OutsideWitness ==
    flavor = "c99" /\ context.size >= 1 /\ outside

====
